---- MODULE Spec2Model ----
(***************************************************************************)
(* A model of bot.py: the FFlag scanning pipeline (strip_code_fences,      *)
(* parse_fflags, is_banned, filter_flags, to_json, the reply of scan) and  *)
(* the guild bookkeeping (upsert_guild, set_guild_ban, is_guild_banned,    *)
(* guild_gate, banserver, unbanserver, on_ready, on_guild_join).           *)
(*                                                                         *)
(* Text is a sequence of one-character strings.  A Python dict is a        *)
(* sequence of records [k, v] with pairwise distinct keys, in insertion    *)
(* order.  Every value of a parsed dict is a Python str (bot.py:128 and    *)
(* the regex captures of bot.py:133): it is the record                     *)
(* [type |-> "str", s |-> <its characters>].                              *)
(***************************************************************************)
EXTENDS Integers, Sequences, FiniteSets, TLC

(***************************************************************************)
(* Characters and strings                                                  *)
(***************************************************************************)
DQ == "\""
SQ == "'"
NL == "\n"
BSL == "\\"
BOM == "BOM"                    \* the one character U+FEFF
BT == "BT"                      \* the one character U+0060, the backtick

\* str.strip() and the regex class \s (the ASCII members)
PyWS == {" ", "\t", "\n", "\r", "\f"}
\* the whitespace json.loads skips
JsonWS == {" ", "\t", "\n", "\r"}
\* characters a strict JSON string may not hold unescaped
Control == {"\t", "\n", "\r", "\f"}
Digits == {"0", "1", "2", "3", "4", "5", "6", "7", "8", "9"}

Upper == <<"A","B","C","D","E","F","G","H","I","J","K","L","M",
           "N","O","P","Q","R","S","T","U","V","W","X","Y","Z">>
Lower == <<"a","b","c","d","e","f","g","h","i","j","k","l","m",
           "n","o","p","q","r","s","t","u","v","w","x","y","z">>

\* str.lower() of one character
LowerChar(c) ==
    IF \E i \in 1..26 : Upper[i] = c
    THEN Lower[CHOOSE i \in 1..26 : Upper[i] = c]
    ELSE c

\* str.lower()
ToLower(s) == [i \in 1..Len(s) |-> LowerChar(s[i])]

\* the least member of a set of integers, or dflt when the set is empty
MinOr(S, dflt) == IF S = {} THEN dflt ELSE CHOOSE j \in S : \A k \in S : j <= k

\* the greatest member of a set of integers, or dflt when the set is empty
MaxOr(S, dflt) == IF S = {} THEN dflt ELSE CHOOSE j \in S : \A k \in S : k <= j

\* the first index >= i of s holding a character in C, Len(s)+1 when there is none
FirstIn(s, i, C) == MinOr({j \in i..Len(s) : s[j] \in C}, Len(s) + 1)

\* the first index >= i of s holding a character outside C, Len(s)+1 when none
FirstNotIn(s, i, C) == MinOr({j \in i..Len(s) : s[j] \notin C}, Len(s) + 1)

\* the last index <= i of s holding a character outside C, 0 when there is none
RECURSIVE LastNotIn(_, _, _)
LastNotIn(s, i, C) ==
    IF i < 1 THEN 0
    ELSE IF s[i] \notin C THEN i
    ELSE LastNotIn(s, i - 1, C)

\* s[i:] starts with lit  (i is 1-based)
StartsWithAt(s, i, lit) ==
    /\ i >= 1
    /\ i + Len(lit) - 1 <= Len(s)
    /\ \A k \in 1..Len(lit) : s[i + k - 1] = lit[k]

EndsWith(s, lit) == StartsWithAt(s, Len(s) - Len(lit) + 1, lit)

\* sub in s
Contains(s, sub) == \E i \in 1..(Len(s) - Len(sub) + 1) : StartsWithAt(s, i, sub)

\* s.find(c) for a character c, as a 1-based index, 0 when absent
FindChar(s, c) == MinOr({j \in 1..Len(s) : s[j] = c}, 0)

\* str.strip()
Strip(s) == SubSeq(s, FirstNotIn(s, 1, PyWS), LastNotIn(s, Len(s), PyWS))

\* str.rstrip(",")
RStripComma(s) == SubSeq(s, 1, LastNotIn(s, Len(s), {","}))

\* str.lstrip of the byte-order mark
LStripBOM(s) == SubSeq(s, FirstNotIn(s, 1, {BOM}), Len(s))

\* sep.join(parts), the parts joined half by half
RECURSIVE JoinWith(_, _)
JoinHalves(parts, sep, h) ==
    JoinWith(SubSeq(parts, 1, h), sep) \o sep \o JoinWith(SubSeq(parts, h + 1, Len(parts)), sep)

JoinWith(parts, sep) ==
    IF parts = <<>> THEN <<>>
    ELSE IF Len(parts) = 1 THEN parts[1]
    ELSE JoinHalves(parts, sep, Len(parts) \div 2)

(***************************************************************************)
(* Python dicts: insertion-ordered, the last write to a key wins and the   *)
(* key keeps the place of its first insertion                              *)
(***************************************************************************)
DictKeys(d) == {d[i].k : i \in 1..Len(d)}

DictGet(d, key) == d[CHOOSE i \in 1..Len(d) : d[i].k = key].v

DictSet(d, key, val) ==
    IF \E i \in 1..Len(d) : d[i].k = key
    THEN [i \in 1..Len(d) |-> IF d[i].k = key THEN [k |-> key, v |-> val] ELSE d[i]]
    ELSE Append(d, [k |-> key, v |-> val])

\* the key/value pairs a dict holds, without their order
DictItems(d) == {<<d[i].k, d[i].v>> : i \in 1..Len(d)}

PyStrOf(chars) == [type |-> "str", s |-> chars]

(***************************************************************************)
(* strip_code_fences                                                       *)
(***************************************************************************)
Fence == <<BT, BT, BT>>
FenceTags == {<<"j","s","o","n">>, <<"t","x","t">>}

\* the end of strip_code_fences: core is text[3:-3].strip(), first_nl = core.find("\n")
DropTagLine(core, first_nl) ==
    IF first_nl # 0 /\ ToLower(SubSeq(core, 1, first_nl - 1)) \in FenceTags
    THEN SubSeq(core, first_nl + 1, Len(core))
    ELSE core

FenceCore(core) == DropTagLine(core, FindChar(core, NL))

\* strip_code_fences after text = text.strip()
StripFences(text) ==
    IF StartsWithAt(text, 1, Fence) /\ EndsWith(text, Fence)
    THEN FenceCore(Strip(SubSeq(text, 4, Len(text) - 3)))
    ELSE text

strip_code_fences(text) == StripFences(Strip(text))

(***************************************************************************)
(* json.loads, strict, on the texts of the model: objects, arrays,         *)
(* strings without escapes, unsigned integers, true, false, null.  The     *)
(* texts of the model hold no backslash, no "-", and no digit followed by  *)
(* ".", "e" or "E", so escapes, signs, fractions and exponents never       *)
(* arise.  A parsed value is a record tagged by its Python type.           *)
(***************************************************************************)
JFail == [ok |-> FALSE, v |-> [type |-> "none"], i |-> 0]
JOk(val, next) == [ok |-> TRUE, v |-> val, i |-> next]

LitTrue == <<"t","r","u","e">>
LitFalse == <<"f","a","l","s","e">>
LitNull == <<"n","u","l","l">>

\* py_scanstring: s[i] is the opening quote, j the next quote or backslash
JSONStringTo(s, i, j) ==
    IF j > Len(s) \/ s[j] = BSL THEN JFail
    ELSE IF \E k \in (i + 1)..(j - 1) : s[k] \in Control THEN JFail
    ELSE JOk(SubSeq(s, i + 1, j - 1), j + 1)

JSONString(s, i) == JSONStringTo(s, i, FirstIn(s, i + 1, {DQ, BSL}))

\* NUMBER_RE at i: 0, or a run of digits that starts with 1..9; e is its end
JSONNumberTo(s, i, e) == JOk([type |-> "int", s |-> SubSeq(s, i, e - 1)], e)

JSONNumber(s, i) ==
    JSONNumberTo(s, i, IF s[i] = "0" THEN i + 1 ELSE FirstNotIn(s, i, Digits))

\* a parsed string as a value
StrValue(r) == IF r.ok THEN JOk([type |-> "str", s |-> r.v], r.i) ELSE JFail

RECURSIVE scan_once(_, _)
RECURSIVE JSONObject(_, _, _)
RECURSIVE JSONArray(_, _, _)

\* after a member: e is the next character that is not whitespace
ObjectNext(s, d, e) ==
    IF e > Len(s) THEN JFail
    ELSE IF s[e] = "}" THEN JOk([type |-> "dict", d |-> d], e + 1)
    ELSE IF s[e] = "," THEN JSONObject(s, FirstNotIn(s, e + 1, JsonWS), d)
    ELSE JFail

\* after a member's value
ObjectValue(s, acc, key, val) ==
    IF ~val.ok THEN JFail
    ELSE ObjectNext(s, DictSet(acc, key, val.v), FirstNotIn(s, val.i, JsonWS))

\* after a member's key: c is the next character that is not whitespace
ObjectColon(s, acc, key, c) ==
    IF c > Len(s) \/ s[c] # ":" THEN JFail
    ELSE ObjectValue(s, acc, key, scan_once(s, FirstNotIn(s, c + 1, JsonWS)))

ObjectKey(s, acc, key) ==
    IF ~key.ok THEN JFail
    ELSE ObjectColon(s, acc, key.v, FirstNotIn(s, key.i, JsonWS))

\* the members of an object from i, where a key must start; acc is the dict so far
JSONObject(s, i, acc) ==
    IF i > Len(s) \/ s[i] # DQ THEN JFail
    ELSE ObjectKey(s, acc, JSONString(s, i))

\* after an element: e is the next character that is not whitespace
ArrayNext(s, items, e) ==
    IF e > Len(s) THEN JFail
    ELSE IF s[e] = "]" THEN JOk([type |-> "list", items |-> items], e + 1)
    ELSE IF s[e] = "," THEN JSONArray(s, FirstNotIn(s, e + 1, JsonWS), items)
    ELSE JFail

ArrayValue(s, acc, val) ==
    IF ~val.ok THEN JFail
    ELSE ArrayNext(s, Append(acc, val.v), FirstNotIn(s, val.i, JsonWS))

\* the elements of an array from i, where a value must start
JSONArray(s, i, acc) == ArrayValue(s, acc, scan_once(s, i))

\* after "{": a is the next character that is not whitespace
ObjectOpen(s, a) ==
    IF a <= Len(s) /\ s[a] = "}" THEN JOk([type |-> "dict", d |-> <<>>], a + 1)
    ELSE JSONObject(s, a, <<>>)

\* after "[": a is the next character that is not whitespace
ArrayOpen(s, a) ==
    IF a <= Len(s) /\ s[a] = "]" THEN JOk([type |-> "list", items |-> <<>>], a + 1)
    ELSE JSONArray(s, a, <<>>)

\* one JSON value starting exactly at i
scan_once(s, i) ==
    IF i > Len(s) THEN JFail
    ELSE IF s[i] = DQ THEN StrValue(JSONString(s, i))
    ELSE IF s[i] = "{" THEN ObjectOpen(s, FirstNotIn(s, i + 1, JsonWS))
    ELSE IF s[i] = "[" THEN ArrayOpen(s, FirstNotIn(s, i + 1, JsonWS))
    ELSE IF s[i] \in Digits THEN JSONNumber(s, i)
    ELSE IF StartsWithAt(s, i, LitTrue) THEN JOk([type |-> "bool", b |-> TRUE], i + 4)
    ELSE IF StartsWithAt(s, i, LitFalse) THEN JOk([type |-> "bool", b |-> FALSE], i + 5)
    ELSE IF StartsWithAt(s, i, LitNull) THEN JOk([type |-> "NoneType"], i + 4)
    ELSE JFail

\* the end of json.loads: only whitespace may follow the value
LoadsEnd(s, r) == IF r.ok /\ FirstNotIn(s, r.i, JsonWS) > Len(s) THEN r ELSE JFail

\* json.loads(s): leading whitespace, one value, trailing whitespace, the end
json_loads(s) == LoadsEnd(s, scan_once(s, FirstNotIn(s, 1, JsonWS)))

(***************************************************************************)
(* str() and repr() of a parsed value                                      *)
(***************************************************************************)
\* repr() of a str of a strict JSON document: no quote to escape (a JSON string
\* of the model holds no double quote, and a single quote switches the
\* delimiter), the byte-order mark written as its escape
ReprQuote(chars, body) ==
    IF \E i \in 1..Len(chars) : chars[i] = SQ
    THEN <<DQ>> \o body \o <<DQ>>
    ELSE <<SQ>> \o body \o <<SQ>>

ReprStr(chars) ==
    ReprQuote(chars, JoinWith([i \in 1..Len(chars) |->
                                 IF chars[i] = BOM THEN <<BSL, "u", "f", "e", "f", "f">>
                                 ELSE <<chars[i]>>], <<>>))

RECURSIVE PyRepr(_)
PyRepr(v) ==
    IF v.type = "str" THEN ReprStr(v.s)
    ELSE IF v.type = "int" THEN v.s
    ELSE IF v.type = "bool" THEN (IF v.b THEN <<"T","r","u","e">> ELSE <<"F","a","l","s","e">>)
    ELSE IF v.type = "NoneType" THEN <<"N","o","n","e">>
    ELSE IF v.type = "list"
    THEN <<"[">> \o JoinWith([i \in 1..Len(v.items) |-> PyRepr(v.items[i])], <<",", " ">>)
         \o <<"]">>
    ELSE <<"{">>
         \o JoinWith([i \in 1..Len(v.d) |->
                        ReprStr(v.d[i].k) \o <<":", " ">> \o PyRepr(v.d[i].v)], <<",", " ">>)
         \o <<"}">>

\* v if isinstance(v, str) else str(v)
PyStr(v) == IF v.type = "str" THEN v.s ELSE PyRepr(v)

(***************************************************************************)
(* re.findall(r'"([^"]+)"\s*:\s*([^,\n}]+)', raw)                         *)
(***************************************************************************)
ValueStop == {",", NL, "}"}
NoMatch == [ok |-> FALSE, k |-> <<>>, v |-> <<>>, i |-> 0]

\* the value starts at p (0: nowhere) and is the longest run free of comma,
\* newline and closing brace
MatchValue(s, i, j, p) ==
    IF p = 0 THEN NoMatch
    ELSE [ok |-> TRUE, k |-> SubSeq(s, i + 1, j - 1),
          v |-> SubSeq(s, p, FirstIn(s, p, ValueStop) - 1),
          i |-> FirstIn(s, p, ValueStop)]

\* after the colon at c: q is the first character after it that is not
\* whitespace.  \s* takes the most whitespace that still leaves the value a
\* first character: the value starts at the last place up to q that holds
\* neither comma, newline nor closing brace
MatchAfterColon(s, i, j, c, q) ==
    MatchValue(s, i, j,
               MaxOr({p \in (c + 1)..(IF q > Len(s) THEN Len(s) ELSE q) :
                        s[p] \notin ValueStop}, 0))

\* after the key's closing quote at j: c is the first character after it that
\* is not whitespace, and must be the colon
MatchColon(s, i, j, c) ==
    IF c > Len(s) \/ s[c] # ":" THEN NoMatch
    ELSE MatchAfterColon(s, i, j, c, FirstNotIn(s, c + 1, PyWS))

\* the key is the run of non-quotes, not empty, from i+1 to the next quote at j
MatchKey(s, i, j) ==
    IF j > Len(s) \/ j = i + 1 THEN NoMatch
    ELSE MatchColon(s, i, j, FirstNotIn(s, j + 1, PyWS))

\* the match that starts exactly at i, if there is one
MatchAt(s, i) == IF s[i] # DQ THEN NoMatch ELSE MatchKey(s, i, FirstIn(s, i + 1, {DQ}))

\* the matches from pos on, leftmost first, none overlapping
RECURSIVE FindAll(_, _)
FindFrom(s, i, m) == IF m.ok THEN <<m>> \o FindAll(s, m.i) ELSE FindAll(s, i + 1)

FindQuote(s, i) == IF i > Len(s) THEN <<>> ELSE FindFrom(s, i, MatchAt(s, i))

FindAll(s, pos) == FindQuote(s, FirstIn(s, pos, {DQ}))

(***************************************************************************)
(* parse_fflags                                                            *)
(***************************************************************************)
\* one layer of matching quotes off a value of the fallback parser
Unquote(v) ==
    IF Len(v) >= 2 /\ ((v[1] = DQ /\ v[Len(v)] = DQ) \/ (v[1] = SQ /\ v[Len(v)] = SQ))
    THEN SubSeq(v, 2, Len(v) - 1)
    ELSE v

RECURSIVE FallbackDict(_, _)
FallbackDict(pairs, out) ==
    IF pairs = <<>> THEN out
    ELSE FallbackDict(Tail(pairs),
                      DictSet(out, pairs[1].k,
                              PyStrOf(Unquote(RStripComma(Strip(pairs[1].v))))))

\* the fallback of parse_fflags on the text left by strip_code_fences
Fallback(raw) == FallbackDict(FindAll(raw, 1), <<>>)

\* the dict comprehension over data.items()
RECURSIVE Stringify(_, _)
Stringify(d, out) ==
    IF d = <<>> THEN out
    ELSE Stringify(Tail(d), DictSet(out, d[1].k, PyStrOf(PyStr(d[1].v))))

Normalize(raw) == LStripBOM(strip_code_fences(raw))

\* json.loads succeeded and data.items() exists
StrictOk(data) == data.ok /\ data.v.type = "dict"

\* parse_fflags after json.loads(raw) gave data (a failure: the exception)
ParseWith(raw, data) ==
    IF StrictOk(data) THEN Stringify(data.v.d, <<>>) ELSE Fallback(raw)

ParseNormalized(raw) == ParseWith(raw, json_loads(raw))

parse_fflags(raw) == ParseNormalized(Normalize(raw))

(***************************************************************************)
(* The settings BAN_EXACT, BAN_CONTAINS, BAN_REGEX, and is_banned.         *)
(* A pattern of BAN_REGEX is a literal with optional anchors:              *)
(* [start, lit, end] stands for  ^? lit $?                                 *)
(***************************************************************************)
VARIABLES BAN_EXACT, BAN_CONTAINS, BAN_REGEX

\* re.search(rx, name), no flags: "$" matches at the end and before a final newline
ChopNewline(name) ==
    IF Len(name) > 0 /\ name[Len(name)] = NL THEN SubSeq(name, 1, Len(name) - 1) ELSE name

re_search(rx, name) ==
    IF rx.start /\ rx.end THEN name = rx.lit \/ ChopNewline(name) = rx.lit
    ELSE IF rx.start THEN StartsWithAt(name, 1, rx.lit)
    ELSE IF rx.end THEN EndsWith(name, rx.lit) \/ EndsWith(ChopNewline(name), rx.lit)
    ELSE Contains(name, rx.lit)

\* any(s in nlow for s in BAN_CONTAINS), nlow = name.lower()
ContainsBanned(nlow) == \E s \in BAN_CONTAINS : Contains(nlow, s)

is_banned(name) ==
    \/ name \in BAN_EXACT
    \/ ContainsBanned(ToLower(name))
    \/ \E i \in 1..Len(BAN_REGEX) : re_search(BAN_REGEX[i], name)

(***************************************************************************)
(* filter_flags: [kept, removed]                                           *)
(***************************************************************************)
RECURSIVE FilterLoop(_, _, _)
FilterLoop(ff, kept, removed) ==
    IF ff = <<>> THEN [kept |-> kept, removed |-> removed]
    ELSE IF is_banned(ff[1].k)
    THEN FilterLoop(Tail(ff), kept, DictSet(removed, ff[1].k, ff[1].v))
    ELSE FilterLoop(Tail(ff), DictSet(kept, ff[1].k, ff[1].v), removed)

\* a filter that also keeps what it removes
filter_flags_keep_all(ff) == [kept |-> ff, removed |-> FilterLoop(ff, <<>>, <<>>).removed]

filter_flags(ff) == FilterLoop(ff, <<>>, <<>>)

(***************************************************************************)
(* to_json: json.dumps(..., indent=4, ensure_ascii=False)                  *)
(***************************************************************************)
\* the JSON escape of one character of a string (ESCAPE_DCT)
EscapeChar(c) ==
    IF c = DQ THEN <<BSL, DQ>>
    ELSE IF c = BSL THEN <<BSL, BSL>>
    ELSE IF c = NL THEN <<BSL, "n">>
    ELSE IF c = "\t" THEN <<BSL, "t">>
    ELSE IF c = "\r" THEN <<BSL, "r">>
    ELSE IF c = "\f" THEN <<BSL, "f">>
    ELSE <<c>>

\* encode_basestring: the quoted, escaped string
JsonStr(chars) ==
    <<DQ>> \o JoinWith([i \in 1..Len(chars) |-> EscapeChar(chars[i])], <<>>) \o <<DQ>>

Indent4 == <<" ", " ", " ", " ">>

\* the text json.dumps writes for the dict, its items in the order given
DumpsInOrder(d) ==
    IF d = <<>> THEN <<"{", "}">>
    ELSE <<"{", NL>>
         \o JoinWith([i \in 1..Len(d) |->
                        Indent4 \o JsonStr(d[i].k) \o <<":", " ">> \o JsonStr(d[i].v.s)],
                     <<",", NL>>)
         \o <<NL, "}">>

to_json(d) == DumpsInOrder(d)


(***************************************************************************)
(* scan, up to its first database call: the text it reads, parse & filter, *)
(* the two JSON texts and the preview of the reply                         *)
(***************************************************************************)
MAX_READ_BYTES == 1000000
PreviewBudget == 1500

HELLIP == "HELLIP"              \* the one character U+2026
TruncMark == <<NL, HELLIP, " ", "(", "t", "r", "u", "n", "c", "a", "t", "e", "d", ")">>

\* f'"{k}": "{v}"'
PreviewLine(e) == <<DQ>> \o e.k \o <<DQ, ":", " ", DQ>> \o e.v.s \o <<DQ>>

\* preview[:1500] + "\n... (truncated)" when len(preview) > 1500
PreviewCut(preview) ==
    IF Len(preview) > PreviewBudget
    THEN SubSeq(preview, 1, PreviewBudget) \o TruncMark
    ELSE preview

PreviewOf(removed) ==
    PreviewCut(JoinWith([i \in 1..Len(removed) |-> PreviewLine(removed[i])], <<NL>>))

NoRes == [reply |-> "none", raw |-> <<>>, fflags |-> <<>>, kept |-> <<>>, removed |-> <<>>,
          kept_json |-> <<>>, removed_json |-> <<>>, preview |-> <<>>]

\* att: the text came as an attachment (read whole) and not after "!scan "
\* (parts[1].strip()).  The result is the early reply, or reply "embed" with
\* everything the rest of scan uses.
ScanFiltered(raw, fflags, f) ==
    [reply |-> "embed", raw |-> raw, fflags |-> fflags,
     kept |-> f.kept, removed |-> f.removed,
     kept_json |-> to_json(f.kept),
     removed_json |-> to_json(f.removed),
     preview |-> IF f.removed # <<>> THEN PreviewOf(f.removed) ELSE <<>>]

\* a scan without "if not fflags: return"
ScanParsedUnchecked(raw, fflags) == ScanFiltered(raw, fflags, filter_flags(fflags))

ScanParsed(raw, fflags) ==
    IF fflags = <<>> THEN [NoRes EXCEPT !.reply = "noparse", !.raw = raw]
    ELSE ScanFiltered(raw, fflags, filter_flags(fflags))

ScanRaw(att, text, raw) ==
    IF att /\ Len(text) > MAX_READ_BYTES THEN [NoRes EXCEPT !.reply = "too_large"]
    ELSE IF raw = <<>> THEN [NoRes EXCEPT !.reply = "attach"]
    ELSE ScanParsed(raw, parse_fflags(raw))

ScanCompute(att, text) == ScanRaw(att, text, IF att THEN text ELSE Strip(text))

(***************************************************************************)
(* The state of the bot                                                    *)
(*                                                                         *)
(* Guild 0 stands for a direct message (ctx.guild is None).  A coroutine   *)
(* runs from one await of a database call to the next in one step; the     *)
(* call it issues takes effect in that step, since one connection runs its *)
(* calls in the order they are issued.  Commands that only read (status,   *)
(* servers, exportscans, scanjson, dumpdb) are left out.                   *)
(***************************************************************************)
\* the guilds the bot can be in are 1..NumGuilds
NumGuilds == 1
\* the handlers that can be running at once
MaxTasks == 2
\* the scans sent in one run of the bot
MaxScans == 1
\* the pieces a user puts together for one text
MaxPieces == 5
\* the letters added to a name to make it long
LongPad == 740
\* MAX_DB_TEXT of bot.py
MAX_DB_TEXT == 500000

Guilds == 1..NumGuilds
Tasks == 1..MaxTasks

VARIABLES
    draft,          \* the pieces of text a user has put together for the next !scan
    db,             \* the global db: "none" or "open"
    disk,           \* table guilds as committed in bot.db: guild -> row
    scans,          \* table scans as committed: a sequence of rows
    pend,           \* the open connection's uncommitted writes to guilds
    pend_scans,     \* the open connection's uncommitted rows of scans
    orphan,         \* a connection that init_db replaced holds an open transaction
    member,         \* bot.guilds
    tasks,          \* the running handlers: task -> its place and locals
    out,            \* the reply a scan sent last
    ban_in_force,   \* history: guild -> a banserver completed, no unbanserver began since
    ban_write       \* history: guilds whose uncommitted row set_guild_ban wrote

settings == <<BAN_EXACT, BAN_CONTAINS, BAN_REGEX>>
vars == <<BAN_EXACT, BAN_CONTAINS, BAN_REGEX, draft, db, disk, scans, pend, pend_scans,
          orphan, member, tasks, out, ban_in_force, ban_write>>

NoRow == [present |-> FALSE, banned |-> 0, name |-> ""]
NoWrite == [w |-> FALSE, row |-> NoRow]
Idle == [kind |-> "idle", pc |-> "idle", g |-> 0, arg |-> 0, att |-> FALSE,
         res |-> NoRes, todo |-> {}, wrote |-> FALSE, clean |-> TRUE, in_force |-> FALSE]
NoOut == [kind |-> "none", g |-> 0, in_force |-> FALSE, res |-> NoRes]

\* the text of the message (after "!scan ") or of the attachment
Text(pieces) == JoinWith(pieces, <<>>)

\* handlers are told apart by what they do, not by their slot: a new one
\* takes the first free slot
FirstIdle ==
    IF \E t \in Tasks : tasks[t] = Idle
    THEN CHOOSE t \in Tasks : tasks[t] = Idle /\ \A u \in Tasks : tasks[u] = Idle => t <= u
    ELSE 0

\* what a SELECT on the open connection sees of guild g
View(g) == IF pend[g].w THEN pend[g].row ELSE disk[g]

\* the connection holds an open transaction
InTransaction == pend_scans # <<>> \/ \E g \in Guilds : pend[g].w

\* INSERT INTO guilds ... VALUES(?,?,?,0) ON CONFLICT(guild_id) DO UPDATE SET name
upsert_guild_reset(r) == [present |-> TRUE, banned |-> 0, name |-> "name"]

upsert_guild_sql(r) ==
    IF r.present THEN [r EXCEPT !.name = "name"]
    ELSE [present |-> TRUE, banned |-> 0, name |-> "name"]

\* INSERT INTO guilds ... VALUES(?,"",?,banned) ON CONFLICT(guild_id) DO UPDATE SET banned
set_guild_ban_sql(r, banned) ==
    IF r.present THEN [r EXCEPT !.banned = banned]
    ELSE [present |-> TRUE, banned |-> banned, name |-> ""]

\* is_guild_banned, its SELECT and fetchone
is_guild_banned(g) ==
    IF db = "none" THEN FALSE
    ELSE View(g).present /\ View(g).banned # 0

\* raw_flags[:MAX_DB_TEXT]
TrimText(t) == IF Len(t) > MAX_DB_TEXT THEN SubSeq(t, 1, MAX_DB_TEXT) ELSE t

\* the row log_scan inserts
ScanRow(g, res, in_force) ==
    [guild_id |-> g, removed_ct |-> Len(res.removed), kept_ct |-> Len(res.kept),
     raw_flags |-> TrimText(res.raw), kept_json |-> TrimText(res.kept_json),
     removed_json |-> TrimText(res.removed_json), in_force |-> in_force]

\* db.commit() on the open connection
CommitEffect ==
    /\ disk' = [g \in Guilds |-> View(g)]
    /\ scans' = scans \o pend_scans
    /\ pend' = [g \in Guilds |-> NoWrite]
    /\ pend_scans' = <<>>
    /\ ban_write' = {}

\* a handler ends with an exception ("database is locked"): on_command_error
\* replies with the error, an event handler logs it
Abort(t) ==
    /\ tasks' = [tasks EXCEPT ![t] = Idle]
    /\ UNCHANGED out

(***************************************************************************)
(* guild_gate, run when a command is invoked from guild g (0: a direct     *)
(* message).  banserver and unbanserver are invoked by the owner.          *)
(***************************************************************************)
Invoke(t, kind, g, arg, att) ==
    /\ t = FirstIdle
    /\ g = 0 \/ g \in member
    /\ kind = "scan" =>
         Len(scans) + Len(pend_scans)
           + Cardinality({u \in Tasks : tasks[u].kind = "scan"}) < MaxScans
    /\ IF g # 0 /\ is_guild_banned(g)
       THEN UNCHANGED <<tasks, ban_in_force>>   \* CheckFailure: the command does not run
       ELSE /\ tasks' = [u \in Tasks |->
                           IF u = t
                           THEN [Idle EXCEPT !.kind = kind, !.pc = "body", !.g = g,
                                             !.arg = arg, !.att = att,
                                             !.in_force = (g # 0 /\ db = "open"
                                                           /\ ban_in_force[g])]
                           ELSE IF kind = "unbanserver" /\ tasks[u].kind = "banserver"
                                   /\ tasks[u].arg = arg
                           THEN [tasks[u] EXCEPT !.clean = FALSE]
                           ELSE tasks[u]]
            /\ ban_in_force' = IF kind = "unbanserver"
                               THEN [ban_in_force EXCEPT ![arg] = FALSE]
                               ELSE ban_in_force
    /\ UNCHANGED <<settings, draft, db, disk, scans, pend, pend_scans, orphan, member,
                   out, ban_write>>

(***************************************************************************)
(* scan                                                                    *)
(***************************************************************************)
\* from the top of scan to log_scan's INSERT, or to an early reply
ScanBodyWith(t, res) ==
    IF res.reply # "embed"
    THEN /\ tasks' = [tasks EXCEPT ![t] = Idle]
         /\ out' = [kind |-> res.reply, g |-> tasks[t].g,
                    in_force |-> tasks[t].in_force, res |-> res]
         /\ UNCHANGED pend_scans
    ELSE IF db = "none"
    THEN /\ tasks' = [tasks EXCEPT ![t].pc = "reply", ![t].res = res]
         /\ UNCHANGED <<out, pend_scans>>
    ELSE IF orphan
    THEN Abort(t) /\ UNCHANGED pend_scans
    ELSE /\ pend_scans' = Append(pend_scans, ScanRow(tasks[t].g, res, tasks[t].in_force))
         /\ tasks' = [tasks EXCEPT ![t].pc = "commit", ![t].res = res]
         /\ UNCHANGED out

ScanBody(t) ==
    /\ tasks[t].kind = "scan" /\ tasks[t].pc = "body"
    /\ ScanBodyWith(t, ScanCompute(tasks[t].att, Text(draft)))
    /\ UNCHANGED <<settings, draft, db, disk, scans, pend, orphan, member, ban_in_force,
                   ban_write>>

\* the db.commit() of log_scan, set_guild_ban and upsert_guild
Commit(t) ==
    /\ tasks[t].pc = "commit"
    /\ CommitEffect
    /\ tasks' = [tasks EXCEPT ![t].pc =
                   IF tasks[t].kind = "on_ready" THEN "upsert"
                   ELSE IF tasks[t].kind = "on_guild_join" THEN "check"
                   ELSE "reply"]
    /\ UNCHANGED <<settings, draft, db, orphan, member, out, ban_in_force>>

\* SELECT last_insert_rowid(), then the embed and cleared_list.json
ScanReply(t) ==
    /\ tasks[t].kind = "scan" /\ tasks[t].pc = "reply"
    /\ out' = [kind |-> "embed", g |-> tasks[t].g, in_force |-> tasks[t].in_force,
               res |-> tasks[t].res]
    /\ tasks' = [tasks EXCEPT ![t] = Idle]
    /\ UNCHANGED <<settings, draft, db, disk, scans, pend, pend_scans, orphan, member,
                   ban_in_force, ban_write>>

(***************************************************************************)
(* banserver, unbanserver                                                  *)
(***************************************************************************)
BanValue(kind) == IF kind = "banserver" THEN 1 ELSE 0

\* set_guild_ban up to its INSERT
BanExec(t) ==
    /\ tasks[t].kind \in {"banserver", "unbanserver"} /\ tasks[t].pc = "body"
    /\ IF db = "none"
       THEN /\ tasks' = [tasks EXCEPT ![t].pc = "reply"]
            /\ UNCHANGED <<pend, ban_write, out>>
       ELSE IF orphan
       THEN Abort(t) /\ UNCHANGED <<pend, ban_write>>
       ELSE /\ pend' = [pend EXCEPT ![tasks[t].arg] =
                          [w |-> TRUE,
                           row |-> set_guild_ban_sql(View(tasks[t].arg),
                                                     BanValue(tasks[t].kind))]]
            /\ ban_write' = ban_write \cup {tasks[t].arg}
            /\ tasks' = [tasks EXCEPT ![t].pc = "commit", ![t].wrote = TRUE]
            /\ UNCHANGED out
    /\ UNCHANGED <<settings, draft, db, disk, scans, pend_scans, orphan, member,
                   ban_in_force>>

\* the reply; banserver leaves the guild it was run in when that is the one banned
BanReply(t) ==
    /\ tasks[t].kind \in {"banserver", "unbanserver"} /\ tasks[t].pc = "reply"
    /\ member' = IF tasks[t].kind = "banserver" /\ tasks[t].g = tasks[t].arg
                 THEN member \ {tasks[t].arg}
                 ELSE member
    /\ ban_in_force' =
         IF /\ tasks[t].kind = "banserver"
            /\ tasks[t].wrote /\ tasks[t].clean
            /\ ~\E u \in Tasks : tasks[u].kind = "unbanserver" /\ tasks[u].arg = tasks[t].arg
         THEN [ban_in_force EXCEPT ![tasks[t].arg] = TRUE]
         ELSE ban_in_force
    /\ tasks' = [tasks EXCEPT ![t] = Idle]
    /\ UNCHANGED <<settings, draft, db, disk, scans, pend, pend_scans, orphan, out,
                   ban_write>>


(***************************************************************************)
(* on_ready, on_guild_join, and the process starting over                  *)
(***************************************************************************)
\* the READY event: on_ready starts and init_db asks for a connection
ReadyEvent(t) ==
    /\ t = FirstIdle
    /\ tasks' = [tasks EXCEPT ![t] = [Idle EXCEPT !.kind = "on_ready", !.pc = "connect"]]
    /\ UNCHANGED <<settings, draft, db, disk, scans, pend, pend_scans, orphan, member, out,
                   ban_in_force, ban_write>>

\* db = await aiosqlite.connect(DB_PATH): the global is bound to the new
\* connection; the one it replaces is never closed and keeps its transaction
InitDb(t) ==
    /\ tasks[t].kind = "on_ready" /\ tasks[t].pc = "connect"
    /\ db' = "open"
    /\ orphan' = (orphan \/ InTransaction)
    /\ pend' = [g \in Guilds |-> NoWrite]
    /\ pend_scans' = <<>>
    /\ ban_write' = {}
    /\ tasks' = [tasks EXCEPT ![t].pc = "script"]
    /\ UNCHANGED <<settings, draft, disk, scans, member, out, ban_in_force>>

\* executescript and commit are done (the tables exist): for g in bot.guilds
ReadyLoop(t) ==
    /\ tasks[t].kind = "on_ready" /\ tasks[t].pc = "script"
    /\ tasks' = [tasks EXCEPT ![t].pc = "upsert", ![t].todo = member]
    /\ UNCHANGED <<settings, draft, db, disk, scans, pend, pend_scans, orphan, member, out,
                   ban_in_force, ban_write>>

\* upsert_guild up to its INSERT, for a guild g
UpsertEffect(t, g, next) ==
    IF db = "none"
    THEN /\ tasks' = [tasks EXCEPT ![t].pc = next, ![t].arg = g,
                                   ![t].todo = tasks[t].todo \ {g}]
         /\ UNCHANGED <<pend, out>>
    ELSE IF orphan
    THEN Abort(t) /\ UNCHANGED pend
    ELSE /\ pend' = [pend EXCEPT ![g] = [w |-> TRUE, row |-> upsert_guild_sql(View(g))]]
         /\ tasks' = [tasks EXCEPT ![t].pc = "commit", ![t].arg = g,
                                   ![t].todo = tasks[t].todo \ {g}]
         /\ UNCHANGED out

\* one turn of the loop of on_ready, or its end
ReadyUpsert(t) ==
    /\ tasks[t].kind = "on_ready" /\ tasks[t].pc = "upsert"
    /\ IF tasks[t].todo = {}
       THEN /\ tasks' = [tasks EXCEPT ![t] = Idle]
            /\ UNCHANGED <<pend, out>>
       ELSE \E g \in tasks[t].todo : UpsertEffect(t, g, "upsert")
    /\ UNCHANGED <<settings, draft, db, disk, scans, pend_scans, orphan, member,
                   ban_in_force, ban_write>>

\* the bot is added to guild g: on_guild_join up to the INSERT of upsert_guild
GuildJoin(t, g) ==
    /\ t = FirstIdle
    /\ g \notin member
    /\ member' = member \cup {g}
    /\ IF db = "none"
       THEN /\ tasks' = [tasks EXCEPT ![t] = [Idle EXCEPT !.kind = "on_guild_join",
                                                         !.pc = "check", !.arg = g]]
            /\ UNCHANGED pend
       ELSE IF orphan
       THEN UNCHANGED <<pend, tasks>>           \* upsert_guild raises
       ELSE /\ pend' = [pend EXCEPT ![g] = [w |-> TRUE, row |-> upsert_guild_sql(View(g))]]
            /\ tasks' = [tasks EXCEPT ![t] = [Idle EXCEPT !.kind = "on_guild_join",
                                                         !.pc = "commit", !.arg = g]]
    /\ UNCHANGED <<settings, draft, db, disk, scans, pend_scans, orphan, out, ban_in_force,
                   ban_write>>

\* if await is_guild_banned(guild.id): ... await guild.leave()
JoinCheck(t) ==
    /\ tasks[t].kind = "on_guild_join" /\ tasks[t].pc = "check"
    /\ member' = IF is_guild_banned(tasks[t].arg) THEN member \ {tasks[t].arg} ELSE member
    /\ tasks' = [tasks EXCEPT ![t] = Idle]
    /\ UNCHANGED <<settings, draft, db, disk, scans, pend, pend_scans, orphan, out,
                   ban_in_force, ban_write>>

\* the bot is removed from guild g (kicked, or the guild is deleted)
GuildRemove(g) ==
    /\ g \in member
    /\ member' = member \ {g}
    /\ UNCHANGED <<settings, draft, db, disk, scans, pend, pend_scans, orphan, tasks, out,
                   ban_in_force, ban_write>>

\* the process ends and starts again: every handler and connection is gone,
\* what was not committed is rolled back, bot.db stays
Restart ==
    /\ db = "open"
    /\ db' = "none"
    /\ tasks' = [t \in Tasks |-> Idle]
    /\ pend' = [g \in Guilds |-> NoWrite]
    /\ pend_scans' = <<>>
    /\ orphan' = FALSE
    /\ ban_write' = {}
    /\ UNCHANGED <<settings, draft, disk, scans, member, out, ban_in_force>>

\* the user adds a piece to the text, before the command is sent
Type(p) ==
    /\ Len(draft) < MaxPieces
    /\ \A t \in Tasks : tasks[t] = Idle
    /\ out = NoOut
    /\ scans = <<>>
    /\ draft' = Append(draft, p)
    /\ UNCHANGED <<settings, db, disk, scans, pend, pend_scans, orphan, member, tasks, out,
                   ban_in_force, ban_write>>

(***************************************************************************)
(* The bot with its guilds: the code's settings, a fixed text to scan      *)
(***************************************************************************)
Str_DFFlagX == <<"D","F","F","l","a","g","X">>
Str_DFFlagY == <<"D","F","F","l","a","g","Y">>
Str_Humanoid == <<"D","F","I","n","t","H","u","m","a","n","o","i","d","S","p","e","e","d">>
Str_BadValue == <<"F","I","n","t","B","a","d","V","a","l","u","e">>

Pair(key, val) == <<DQ>> \o key \o <<DQ, ":", " ">> \o val

P_X == Pair(Str_DFFlagX, LitTrue)
P_Y == Pair(Str_DFFlagY, LitFalse)
P_Bad == Pair(Str_BadValue, <<DQ, "a", "b", "c", DQ>>)
P_Hum == Pair(Str_Humanoid, <<"5">>)

\* BAN_CONTAINS, BAN_EXACT, BAN_REGEX as bot.py sets them
CodeBanContains == {<<"d","e","b","o","u","n","c","e">>, <<"d","e","c","o","m","p">>,
                    <<"h","u","m","a","n","o","i","d">>}

CodeSettings ==
    /\ BAN_CONTAINS = CodeBanContains
    /\ BAN_EXACT = {}
    /\ BAN_REGEX = <<>>

DbDraft == <<"{">> \o P_X \o <<",", " ">> \o P_Hum \o <<"}">>

InitCommon ==
    /\ disk = [g \in Guilds |-> NoRow]
    /\ scans = <<>>
    /\ pend = [g \in Guilds |-> NoWrite]
    /\ pend_scans = <<>>
    /\ orphan = FALSE
    /\ tasks = [t \in Tasks |-> Idle]
    /\ out = NoOut
    /\ ban_in_force = [g \in Guilds |-> FALSE]
    /\ ban_write = {}

Init ==
    /\ CodeSettings
    /\ draft = <<DbDraft>>
    /\ db = "none"
    /\ member \in SUBSET Guilds
    /\ InitCommon

Next ==
    \/ \E t \in Tasks, g \in Guilds \cup {0} : Invoke(t, "scan", g, 0, FALSE)
    \/ \E t \in Tasks, k \in {"banserver", "unbanserver"}, g \in Guilds \cup {0},
          arg \in Guilds : Invoke(t, k, g, arg, FALSE)
    \/ \E t \in Tasks : ScanBody(t)
    \/ \E t \in Tasks : Commit(t)
    \/ \E t \in Tasks : ScanReply(t)
    \/ \E t \in Tasks : BanExec(t)
    \/ \E t \in Tasks : BanReply(t)
    \/ \E t \in Tasks : ReadyEvent(t)
    \/ \E t \in Tasks : InitDb(t)
    \/ \E t \in Tasks : ReadyLoop(t)
    \/ \E t \in Tasks : ReadyUpsert(t)
    \/ \E t \in Tasks, g \in Guilds : GuildJoin(t, g)
    \/ \E t \in Tasks : JoinCheck(t)
    \/ \E g \in Guilds : GuildRemove(g)
    \/ Restart

Spec == Init /\ [][Next]_vars

(***************************************************************************)
(* The scanning pipeline alone: the bot is up in no guild (on_ready has    *)
(* run, the database is open), a user puts a text together in a direct     *)
(* message and sends !scan                                                 *)
(***************************************************************************)
InitUp ==
    /\ db = "open"
    /\ member = {}
    /\ InitCommon

\* a scan from a direct message, from the command to the reply
ScanSteps(atts) ==
    \/ \E t \in Tasks, att \in atts : Invoke(t, "scan", 0, 0, att)
    \/ \E t \in Tasks : ScanBody(t)
    \/ \E t \in Tasks : Commit(t)
    \/ \E t \in Tasks : ScanReply(t)

\* objects with the comma there, missing or doubled, and bare pairs
PipeKeys == {<<"{">>, <<"}">>, <<",">>, <<" ">>, P_X, P_Y, P_Hum}

InitPipe ==
    /\ CodeSettings
    /\ draft = <<>>
    /\ InitUp

NextPipe ==
    \/ \E p \in PipeKeys : Type(p)
    \/ ScanSteps({FALSE})

SpecPipe == InitPipe /\ [][NextPipe]_vars

\* objects, arrays and scalars, and a value that is no integer
ShapeKeys == {<<"{">>, <<"}">>, <<"[">>, <<"]">>, <<"5">>, P_X, P_Bad}

NextShape ==
    \/ \E p \in ShapeKeys : Type(p)
    \/ ScanSteps({FALSE})

SpecShape == InitPipe /\ [][NextShape]_vars

(***************************************************************************)
(* The name policy: other settings than the ones bot.py ships with         *)
(***************************************************************************)
Str_humanoid == <<"h","u","m","a","n","o","i","d">>
Str_HumanoidCap == <<"H","u","m","a","n","o","i","d">>
Str_flag == <<"f","l","a","g">>
Str_Speed == <<"S","p","e","e","d">>
Str_DFFlag == <<"D","F","F","l","a","g">>
Str_dfflagx == <<"d","f","f","l","a","g","x">>

PolicyExact == {Str_DFFlagX, Str_Humanoid}
PolicyContains == {Str_humanoid, Str_HumanoidCap, Str_flag}
PolicyRegex == {<<>>,
                <<[start |-> TRUE, lit |-> Str_DFFlag, end |-> FALSE]>>,
                <<[start |-> FALSE, lit |-> Str_Speed, end |-> TRUE]>>,
                <<[start |-> FALSE, lit |-> Str_dfflagx, end |-> FALSE]>>}
PolicyNames == {Str_DFFlagX, Str_DFFlagY, Str_Humanoid, Str_dfflagx}

InitPolicy ==
    /\ BAN_EXACT \in SUBSET PolicyExact
    /\ BAN_CONTAINS \in SUBSET PolicyContains
    /\ BAN_REGEX \in PolicyRegex
    /\ draft \in {<<<<"{">>, Pair(k, LitTrue), <<"}">>>> : k \in PolicyNames}
    /\ InitUp

NextPolicy == ScanSteps({FALSE})

SpecPolicy == InitPolicy /\ [][NextPolicy]_vars

(***************************************************************************)
(* The preview of the reply: names long enough for two entries to pass     *)
(* the 1500 characters                                                     *)
(***************************************************************************)
LongName(c) == Str_Humanoid \o [i \in 1..LongPad |-> c]

P_LongA == Pair(LongName("A"), <<"5">>)
P_LongB == Pair(LongName("B"), <<"5">>)

PreviewPairs == {P_LongA, P_LongB, P_Hum}

PreviewDrafts ==
    {<<<<"{">>, a, <<"}">>>> : a \in PreviewPairs}
    \cup {<<<<"{">>, a, <<",">>, b, <<"}">>>> : a \in PreviewPairs, b \in PreviewPairs}
    \cup {<<<<"{">>, a, <<",">>, b, <<",">>, c>> \o <<<<"}">>>> :
            a \in PreviewPairs, b \in PreviewPairs, c \in PreviewPairs}

InitPreview ==
    /\ CodeSettings
    /\ draft \in PreviewDrafts
    /\ InitUp

NextPreview == ScanSteps(BOOLEAN)

SpecPreview == InitPreview /\ [][NextPreview]_vars

(***************************************************************************)
(* Properties of the pipeline                                              *)
(***************************************************************************)
\* the results of parse & filter that scans hold or have replied with
Results ==
    {r \in {out.res} \cup {tasks[t].res : t \in Tasks} : r.reply = "embed"}

\* no scan got past parsing: nothing filtered, no row of scans, no file
NothingScanned ==
    /\ Results = {}
    /\ out.kind \in {"none", "attach", "noparse"}
    /\ scans = <<>> /\ pend_scans = <<>>
    /\ \A t \in Tasks : tasks[t].pc \notin {"commit", "reply"}

\* C1: whenever parse_fflags gave a non-empty mapping, kept and removed (the
\* buckets scan has) share no key, and their keys together are exactly the
\* keys the parser returned, each with the value the parser gave it
C1_Partition ==
    \A r \in Results :
        /\ r.fflags # <<>>
        /\ DictKeys(r.kept) \cap DictKeys(r.removed) = {}
        /\ DictKeys(r.kept) \cup DictKeys(r.removed) = DictKeys(r.fflags)
        /\ DictItems(r.kept) \cup DictItems(r.removed) = DictItems(r.fflags)

\* a scan has replied with keys in both buckets
C1_Witness ==
    /\ out.kind = "embed"
    /\ out.res.kept # <<>>
    /\ out.res.removed # <<>>

\* the text has a "{" with a "}" somewhere after it
HasBraceSpan(s) == \E i \in 1..Len(s), j \in 1..Len(s) : i < j /\ s[i] = "{" /\ s[j] = "}"

\* the text has a quoted, non-empty name, a colon after it, and after the
\* colon something other than a comma, a newline or a closing brace, with
\* nothing but whitespace in between
HasPairShape(s) ==
    \E i \in 1..Len(s) :
        /\ s[i] = DQ
        /\ \E j \in (i + 2)..Len(s) :
             /\ s[j] = DQ
             /\ \A k \in (i + 1)..(j - 1) : s[k] # DQ
             /\ \E c \in (j + 1)..Len(s) :
                  /\ s[c] = ":"
                  /\ \A k \in (j + 1)..(c - 1) : s[k] \in PyWS
                  /\ \E p \in (c + 1)..Len(s) :
                       /\ s[p] \notin ValueStop
                       /\ \A k \in (c + 1)..(p - 1) : s[k] \in PyWS

PipePairs == {[k |-> Str_DFFlagX, v |-> LitTrue], [k |-> Str_DFFlagY, v |-> LitFalse],
              [k |-> Str_Humanoid, v |-> <<"5">>]}

\* C6: for an object whose two pairs lack the comma between them, on one
\* line, the parser returns a mapping that has the first pair's name with
\* the first pair's own value
C6_FirstPairOwnValue ==
    \A a \in PipePairs, b \in PipePairs :
        (/\ a # b
         /\ draft = <<<<"{">>, Pair(a.k, a.v), <<" ">>, Pair(b.k, b.v), <<"}">>>>
         /\ out.kind # "none")
        => /\ out.kind = "embed"
           /\ a.k \in DictKeys(out.res.fflags)
           /\ DictGet(out.res.fflags, a.k).s = a.v

\* the code point order of the characters the model uses (for sorted())
CodeOrder == <<"\t", "\n", "\f", "\r", " ", DQ, SQ, ",", "0", "1", "2", "3", "4",
               "5", "6", "7", "8", "9", ":">> \o Upper \o <<"[", BSL, "]", BT>>
             \o Lower \o <<"{", "}", BOM>>

CodePoint(c) == CHOOSE i \in 1..Len(CodeOrder) : CodeOrder[i] = c

\* s < t for Python strings
RECURSIVE StrLess(_, _)
StrLess(s, t) ==
    IF t = <<>> THEN FALSE
    ELSE IF s = <<>> THEN TRUE
    ELSE IF s[1] = t[1] THEN StrLess(Tail(s), Tail(t))
    ELSE CodePoint(s[1]) < CodePoint(t[1])

\* the place of entry i of a dict when its keys are sorted
Rank(d, i) == Cardinality({j \in 1..Len(d) : StrLess(d[j].k, d[i].k)}) + 1

\* the dict with its keys in sorted order
SortedByKey(d) == [r \in 1..Len(d) |-> d[CHOOSE i \in 1..Len(d) : Rank(d, i) = r]]

\* C7: the text written for kept has its keys in sorted order, which makes
\* it the same text whatever the order the pairs were parsed in
C7_Canonical ==
    \A r \in Results : r.kept_json = DumpsInOrder(SortedByKey(r.kept))

(***************************************************************************)
(* The schema the specification gives: the kind of value a name's prefix   *)
(* declares                                                                *)
(***************************************************************************)
PrefixSchema == <<[prefix |-> <<"D","F","F","l","a","g">>, kind |-> "bool"],
                  [prefix |-> <<"D","F","I","n","t">>, kind |-> "int"],
                  [prefix |-> <<"F","I","n","t">>, kind |-> "int"]>>

\* the kind declared for a name, "unknown_type" when no prefix is recognized
DeclaredKind(name) ==
    IF \E i \in 1..Len(PrefixSchema) : StartsWithAt(name, 1, PrefixSchema[i].prefix)
    THEN PrefixSchema[CHOOSE i \in 1..Len(PrefixSchema) :
                        StartsWithAt(name, 1, PrefixSchema[i].prefix)].kind
    ELSE "unknown_type"

\* the number a run of digits writes
RECURSIVE DigitsValue(_)
DigitsValue(ds) ==
    IF ds = <<>> THEN 0
    ELSE 10 * DigitsValue(SubSeq(ds, 1, Len(ds) - 1))
         + (CHOOSE n \in 0..9 : CodePoint(ds[Len(ds)]) = CodePoint("0") + n)

\* the text of a value is of the kind, or can be coerced to it
OfKind(kind, text) ==
    IF kind = "bool"
    THEN text \in {LitTrue, LitFalse, <<"T","r","u","e">>, <<"F","a","l","s","e">>}
    ELSE IF kind = "int"
    THEN /\ text # <<>>
         /\ Len(text) <= 10
         /\ \A i \in 1..Len(text) : text[i] \in Digits
         /\ DigitsValue(text) <= 2147483647
    ELSE kind = "string"

\* C3: every name in kept has a recognized prefix and a value of the kind the
\* prefix declares; a name with an unrecognized prefix or a value that cannot
\* be coerced is not in kept
C3_KeptTyped ==
    \A r \in Results :
        \A i \in 1..Len(r.kept) :
            /\ DeclaredKind(r.kept[i].k) # "unknown_type"
            /\ OfKind(DeclaredKind(r.kept[i].k), r.kept[i].v.s)

\* what json.loads makes of the text parse_fflags hands it
StrictValue(text) == json_loads(Normalize(Strip(text)))

\* C4: when the text parses strictly as JSON and its top-level value is an
\* array or a scalar, no pair is taken from it: nothing is filtered, no row
\* is logged, no file is sent
C4_TopLevelNotObject ==
    (StrictValue(Text(draft)).ok /\ StrictValue(Text(draft)).v.type # "dict") =>
        /\ parse_fflags(Text(draft)) = <<>>
        /\ NothingScanned

(***************************************************************************)
(* Properties of the name policy                                           *)
(***************************************************************************)
\* the rules as the specification states them
ExactRule(k) == k \in BAN_EXACT
ContainsRule(k) == \E s \in BAN_CONTAINS : Contains(ToLower(k), ToLower(s))
RegexRule(k) == \E i \in 1..Len(BAN_REGEX) : re_search(BAN_REGEX[i], k)

\* C2: whatever the settings, a name is in removed if and only if it is in
\* BAN_EXACT as it is written, or a banned substring occurs in it when case is
\* ignored, or a pattern of BAN_REGEX matches it as it is written
C2_RemovedIffRule ==
    \A r \in Results :
        \A i \in 1..Len(r.fflags) :
            r.fflags[i].k \in DictKeys(r.removed)
            <=> (ExactRule(r.fflags[i].k) \/ ContainsRule(r.fflags[i].k)
                 \/ RegexRule(r.fflags[i].k))

(***************************************************************************)
(* Properties of the preview                                               *)
(***************************************************************************)
\* the first n entries of removed as the preview lists them
WholeEntries(removed, n) ==
    JoinWith([i \in 1..n |-> PreviewLine(removed[i])], <<NL>>)

\* C8: a preview that would pass 1500 characters ends with the truncation
\* mark, and what stands before the mark is a number of whole entries of
\* removed
C8_WholeEntries ==
    \A r \in Results :
        Len(WholeEntries(r.removed, Len(r.removed))) > PreviewBudget =>
            /\ EndsWith(r.preview, TruncMark)
            /\ \E n \in 0..Len(r.removed) :
                 SubSeq(r.preview, 1, Len(r.preview) - Len(TruncMark))
                   = WholeEntries(r.removed, n)

(***************************************************************************)
(* Properties of the guild bookkeeping                                     *)
(***************************************************************************)
\* C9: with the database open, while a ban of g is in force (a banserver for
\* g has completed and no unbanserver for g has begun since), no command
\* from g passes guild_gate: no handler runs that was let in from g in that
\* time, no scan replied and no row of scans exists that came from one
C9_BannedGuildRejected ==
    /\ \A t \in Tasks : ~tasks[t].in_force
    /\ ~out.in_force
    /\ \A i \in 1..Len(scans) : ~scans[i].in_force
    /\ \A i \in 1..Len(pend_scans) : ~pend_scans[i].in_force

\* a step in which upsert_guild has done its INSERT for the guild
UpsertStep(t, g) ==
    /\ tasks'[t].kind \in {"on_ready", "on_guild_join"}
    /\ tasks'[t].pc = "commit"
    /\ tasks[t].pc # "commit"
    /\ tasks'[t].arg = g

\* C10, step by step: upsert_guild gives a missing row banned = 0 and leaves
\* the flag of a row that exists as it is; and the flag of a row of bot.db
\* changes, or a row appears banned, only when a commit writes what
\* set_guild_ban put there
C10_Step ==
    \A g \in Guilds :
        /\ \A t \in Tasks :
             UpsertStep(t, g) =>
                 /\ pend'[g].w /\ pend'[g].row.present
                 /\ pend'[g].row.banned = IF View(g).present THEN View(g).banned ELSE 0
        /\ disk'[g] # disk[g] /\ disk'[g].banned # (IF disk[g].present THEN disk[g].banned ELSE 0)
             => g \in ban_write

C10_OnlySetGuildBan == [][C10_Step]_vars

\* upsert_guild has written, not yet committed, the row of a guild whose ban
\* is in bot.db, and the flag it wrote is the ban
C10_Witness ==
    \E t \in Tasks :
        /\ tasks[t].kind \in {"on_ready", "on_guild_join"}
        /\ tasks[t].pc = "commit"
        /\ disk[tasks[t].arg].present /\ disk[tasks[t].arg].banned = 1
        /\ pend[tasks[t].arg].w /\ pend[tasks[t].arg].row.banned = 1
        /\ ban_write = {}

====
